---- MODULE Spec2Model ----
(***************************************************************************)
(* A model of dotstow.py: the DotfileMover run (repository-root            *)
(* resolution, app-name inference, target mapping, validation, move and    *)
(* the stow step) over an explicit filesystem.                             *)
(*                                                                         *)
(* Strings are TLC strings (Len, SubSeq and \o work on them); a resolved   *)
(* pathlib.Path is the sequence of its segments below "/".                 *)
(***************************************************************************)
EXTENDS Integers, Sequences, FiniteSets, TLC

VARIABLES
    fs,             \* the filesystem: resolved path -> [kind, to]
    cwd,            \* Path.cwd()
    global_config,  \* content of ~/.config/dotstow/config.json
    local_config,   \* content of <cwd>/config.json
    listable,       \* may the process list the entries of cwd?
    stow_installed, \* shutil.which("stow") is not None
    pc,             \* position of the running process
    argv,           \* the parsed command line of the current run
    source_path,    \* DotfileMover.source_path
    app_name,       \* DotfileMover.app_name
    dotfiles_dir,   \* DotfileMover.dotfiles_dir
    target_path,    \* DotfileMover.target_path
    path,           \* the candidate of the interactive loop
    answer,         \* the last line read by input()
    infer,          \* the result of the last _infer_app_name call
    outcome,        \* how the last run ended
    exit_code,      \* the exit status of the last run
    fs0,            \* the filesystem when the current run started
    io,             \* what the current run has done and asked so far
    runs,           \* number of runs started
    prev            \* summary of the previous run

vars == <<fs, cwd, global_config, local_config, listable, stow_installed, pc,
          argv, source_path, app_name, dotfiles_dir, target_path, path,
          answer, infer, outcome, exit_code, fs0, io, runs, prev>>

\* ---------------------------------------------------------------- bounds
MaxRuns == 2

\* ------------------------------------------------------- Python values
\* Python's None, where a string is expected
None == "<None>"
\* an attribute that has not been assigned yet
Unset == <<"<unset>">>
\* truthiness of an Optional[str]
Truthy(s) == s # None /\ s # ""

\* -------------------------------------------------------------- strings
startswith(s, prefix) ==
    Len(prefix) <= Len(s) /\ SubSeq(s, 1, Len(prefix)) = prefix

RECURSIVE lstrip(_, _)
lstrip(s, chars) ==
    IF Len(s) > 0 /\ SubSeq(s, 1, 1) \in chars
    THEN lstrip(SubSeq(s, 2, Len(s)), chars)
    ELSE s

RECURSIVE rstrip(_, _)
rstrip(s, chars) ==
    IF Len(s) > 0 /\ SubSeq(s, Len(s), Len(s)) \in chars
    THEN rstrip(SubSeq(s, 1, Len(s) - 1), chars)
    ELSE s

Whitespace == {" ", "\t"}
strip(s) == rstrip(lstrip(s, Whitespace), Whitespace)

Upper == <<"A","B","C","D","E","F","G","H","I","J","K","L","M",
           "N","O","P","Q","R","S","T","U","V","W","X","Y","Z">>
Lowercase == <<"a","b","c","d","e","f","g","h","i","j","k","l","m",
           "n","o","p","q","r","s","t","u","v","w","x","y","z">>
lower_char(c) ==
    IF \E i \in 1..26 : Upper[i] = c
    THEN Lowercase[CHOOSE i \in 1..26 : Upper[i] = c]
    ELSE c

RECURSIVE lower(_)
lower(s) ==
    IF Len(s) = 0 THEN ""
    ELSE lower_char(SubSeq(s, 1, 1)) \o lower(SubSeq(s, 2, Len(s)))

\* ---------------------------------------------------------------- paths
\* s.split("/")
RECURSIVE split(_, _)
split(s, cur) ==
    IF Len(s) = 0 THEN <<cur>>
    ELSE IF SubSeq(s, 1, 1) = "/"
         THEN <<cur>> \o split(SubSeq(s, 2, Len(s)), "")
         ELSE split(SubSeq(s, 2, Len(s)), cur \o SubSeq(s, 1, 1))

\* pathlib drops empty and "." segments
parts_of(s) == SelectSeq(split(s, ""), LAMBDA x : x # "" /\ x # ".")
is_absolute(s) == Len(s) > 0 /\ SubSeq(s, 1, 1) = "/"

home == <<"h">>

IsPrefix(p, q) == Len(p) <= Len(q) /\ SubSeq(q, 1, Len(p)) = p
\* q.relative_to(p) succeeds
is_relative_to(q, p) == IsPrefix(p, q)
\* q.relative_to(p), when it succeeds
relative_to(q, p) == SubSeq(q, Len(p) + 1, Len(q))
parent(p) == SubSeq(p, 1, Len(p) - 1)
name(p) == IF Len(p) = 0 THEN "" ELSE p[Len(p)]

\* p / s: the segments of s are appended, an absolute s replaces p
joinpath(p, s) == IF is_absolute(s) THEN parts_of(s) ELSE p \o parts_of(s)

\* str() of a relative path
RECURSIVE join(_)
join(ps) ==
    IF Len(ps) = 0 THEN "."
    ELSE IF Len(ps) = 1 THEN ps[1]
    ELSE ps[1] \o "/" \o join(Tail(ps))

\* ----------------------------------------------------------- filesystem
Absent == [kind |-> "none", to |-> <<>>]
File == [kind |-> "file", to |-> <<>>]
Dir == [kind |-> "dir", to |-> <<>>]
Link(t) == [kind |-> "link", to |-> t]

node(f, p) == IF p \in DOMAIN f THEN f[p] ELSE Absent

\* the longest prefix of done \o rest that is not behind a symlink; a link
\* met on the way is replaced by its target (os.path.realpath, non-strict)
RECURSIVE realpath(_, _, _, _)
realpath(f, done, rest, fuel) ==
    IF Len(rest) = 0 THEN done
    ELSE LET nxt == Append(done, Head(rest)) IN
         IF node(f, nxt).kind = "link" /\ fuel > 0
         THEN realpath(f, <<>>, node(f, nxt).to \o Tail(rest), fuel - 1)
         ELSE realpath(f, nxt, Tail(rest), fuel)

MaxLinks == 4

\* Path(s).expanduser().resolve()
expanduser(ps) == IF Len(ps) > 0 /\ ps[1] = "~" THEN home \o Tail(ps) ELSE ps
absolute(wd, s) ==
    LET ps == parts_of(s) IN
    IF is_absolute(s) THEN ps
    ELSE IF Len(ps) > 0 /\ ps[1] = "~" THEN expanduser(ps)
    ELSE wd \o ps
resolve(f, wd, s) == realpath(f, <<>>, absolute(wd, s), MaxLinks)

is_symlink(f, p) == node(f, p).kind = "link"
\* Path.exists() and Path.is_dir() follow symlinks
exists(f, p) == node(f, realpath(f, <<>>, p, MaxLinks)).kind \in {"file", "dir"}
is_dir(f, p) == node(f, realpath(f, <<>>, p, MaxLinks)).kind = "dir"

\* the conflict check left out
conflicts_never(f, t) == FALSE

\* line 257: if self.target_path.exists()
conflicts(f, t) == exists(f, t)

Ancestors(p) == {SubSeq(p, 1, i) : i \in 1..(Len(p) - 1)}

\* the directory is reported created without being made
mkdir_nothing(f, p) == f

\* path.mkdir(parents=True, exist_ok=True)
mkdir(f, p) ==
    LET made == {q \in Ancestors(p) \cup {p} : node(f, q).kind = "none"} IN
    [q \in DOMAIN f \cup made |-> IF q \in made THEN Dir ELSE f[q]]

\* a copy that forgets to remove the source
shutil_move_keeps_source(f, src, dst) ==
    LET moved == {q \in DOMAIN f : IsPrefix(src, q)}
        landed == {dst \o relative_to(q, src) : q \in moved}
    IN [q \in DOMAIN f \cup landed |->
            IF q \in landed
            THEN f[src \o relative_to(q, dst)]
            ELSE f[q]]

\* shutil.move(src, dst) where dst does not exist: the tree at src is renamed
shutil_move(f, src, dst) ==
    LET moved == {q \in DOMAIN f : IsPrefix(src, q)}
        landed == {dst \o relative_to(q, src) : q \in moved}
    IN [q \in (DOMAIN f \ moved) \cup landed |->
            IF q \in landed
            THEN f[src \o relative_to(q, dst)]
            ELSE f[q]]

\* ------------------------------------------------------- mapping table
APP_NAME_MAPPINGS == <<
    <<".zshrc", "zsh">>,
    <<".bashrc", "bash">>,
    <<".bash_profile", "bash">>,
    <<".bash_aliases", "bash">>,
    <<".profile", "shell">>,
    <<".login", "shell">>,
    <<"config.fish", "fish">>,
    <<".vimrc", "vim">>,
    <<".gvimrc", "gvim">>,
    <<".config/nvim", "nvim">>,
    <<".ideavimrc", "ideavim">>,
    <<".nanorc", "nano">>,
    <<".gitconfig", "git">>,
    <<".gitignore_global", "git">>,
    <<".config/git", "git">>,
    <<".tmux.conf", "tmux">>,
    <<".screenrc", "screen">>,
    <<".config/alacritty", "alacritty">>,
    <<".config/kitty", "kitty">>,
    <<".config/ghostty", "ghostty">>,
    <<".xprofile", "xorg">>,
    <<".Xresources", "xorg">>,
    <<".Xmodmap", "xorg">>,
    <<".xinitrc", "xorg">>,
    <<".config/i3", "i3">>,
    <<".config/polybar", "polybar">>,
    <<".config/starship.toml", "starship">>,
    <<".config/direnv", "direnv">>,
    <<".ssh", "ssh">>,
    <<".gnupg", "gnupg">>,
    <<".config/htop", "htop">>,
    <<".config/npm", "npm">>,
    <<".config/pip", "pip">>,
    <<".config/gem", "gem">>,
    <<".inputrc", "readline">>,
    <<".pylintrc", "pylint">> >>

\* ------------------------------------------------------ app-name resolver
Returned(v, how) == [called |-> TRUE, ok |-> TRUE, val |-> v, via |-> how]
Raised(e) == [called |-> TRUE, ok |-> FALSE, val |-> e, via |-> "raise"]
NotCalled == [called |-> FALSE, ok |-> FALSE, val |-> "", via |-> ""]

_infer_app_name(src) ==
    IF ~is_relative_to(src, home) THEN Raised("ValueError")
    ELSE
    LET relative_path_str == join(relative_to(src, home))
        hits == {i \in 1..Len(APP_NAME_MAPPINGS) :
                    startswith(relative_path_str, APP_NAME_MAPPINGS[i][1])}
    IN  IF hits # {}
        THEN Returned(APP_NAME_MAPPINGS[CHOOSE i \in hits :
                                           \A j \in hits : i <= j][2], "table")
        ELSE IF startswith(relative_path_str, ".config")
                /\ is_relative_to(src, home \o <<".config">>)
             THEN IF Len(relative_to(src, home \o <<".config">>)) = 0
                  THEN Raised("IndexError")
                  ELSE Returned(relative_to(src, home \o <<".config">>)[1],
                                "config")
             ELSE Returned(lstrip(name(src), {"."}), "name")

\* ------------------------------------------------------------ path mapper
Mapped(p) == [ok |-> TRUE, val |-> p, err |-> ""]
MapRaised(e) == [ok |-> FALSE, val |-> Unset, err |-> e]

_get_target_path(root, app, src) ==
    IF ~is_relative_to(src, home) THEN MapRaised("ValueError")
    ELSE
    LET relative_path == relative_to(src, home) IN
    IF Len(relative_path) = 0 THEN MapRaised("IndexError")
    ELSE IF relative_path[1] = ".config"
         THEN Mapped(joinpath(root, app) \o <<".config">>
                          \o relative_to(relative_path, <<".config">>))
         ELSE Mapped(joinpath(root, app) \o relative_path)

\* ------------------------------------------------------- configuration
NoFile == [state |-> "absent", dotfiles_dir |-> None]
BadJson == [state |-> "invalid", dotfiles_dir |-> None]
JsonList == [state |-> "nonobject", dotfiles_dir |-> None]
JsonObject(v) == [state |-> "object", dotfiles_dir |-> v]

\* the value json.load returns, {} when there is no usable file
_load_config(g, l) ==
    LET config_path == IF g.state # "absent" THEN g
                       ELSE IF l.state # "absent" THEN l
                       ELSE NoFile
    IN IF config_path.state \in {"absent", "invalid"}
       THEN JsonObject(None)
       ELSE config_path

\* the persisted value taking precedence over the command line
final_dotfiles_dir_persisted_first(dir, config) ==
    IF Truthy(config.dotfiles_dir) THEN config.dotfiles_dir ELSE dir

\* dotfiles_dir or config_dir
final_dotfiles_dir(dir, config) ==
    IF Truthy(dir) THEN dir ELSE config.dotfiles_dir

\* --------------------------------------------------- directory classifier
AppNames == {APP_NAME_MAPPINGS[i][2] : i \in 1..Len(APP_NAME_MAPPINGS)}

_is_dotfiles_directory(f, p, can_list) ==
    IF lower(name(p)) \in {"dotfiles", "configs", "config"} THEN "True"
    ELSE IF exists(f, p \o <<".stow-local-ignore">>)
            \/ exists(f, p \o <<".stow-global-ignore">>) THEN "True"
    ELSE IF ~can_list THEN "PermissionError"
    ELSE LET entries == {d \in DOMAIN f : Len(d) > 0 /\ parent(d) = p
                                          /\ f[d].kind # "none"}
             app_dirs == {d \in entries : is_dir(f, d)}
             stowable_dirs == {d \in app_dirs : name(d) \in AppNames}
         IN IF Cardinality(stowable_dirs) >= 2 THEN "True" ELSE "False"

\* ------------------------------------------------------------- the runs
NoArgs == [source_path |-> None, app_name |-> None, dotfiles_dir |-> None,
           auto_stow |-> FALSE, no_stow |-> FALSE]
NoPrev == [moved |-> FALSE, from |-> Unset, to |-> Unset, root |-> Unset,
           linked |-> FALSE, exit_code |-> 0]

\* what a finished run leaves for the next one to be compared with
Summary ==
    IF "moved" \in io
    THEN [moved |-> TRUE, from |-> source_path, to |-> target_path,
          root |-> dotfiles_dir, linked |-> "linked" \in io,
          exit_code |-> exit_code]
    ELSE NoPrev

Env == <<cwd, global_config, local_config, listable, stow_installed>>

\* sys.exit(code), or main() returning (code 0)
Exit(code, what) ==
    /\ pc' = "idle"
    /\ exit_code' = code
    /\ outcome' = what

is_yes(s) == lower(s) \in {"y", "yes"}

\* main() and DotfileMover.__init__ up to the call of _get_dotfiles_dir
Main(src, app, dir, auto, no) ==
    /\ pc = "idle"
    /\ runs < MaxRuns
    /\ runs' = runs + 1
    /\ prev' = Summary
    /\ argv' = [source_path |-> src, app_name |-> app, dotfiles_dir |-> dir,
                auto_stow |-> auto, no_stow |-> no]
    /\ fs0' = fs
    /\ io' = {}
    /\ answer' = None
    /\ infer' = NotCalled
    /\ target_path' = Unset
    /\ dotfiles_dir' = Unset
    /\ path' = Unset
    /\ IF ~stow_installed
       THEN /\ Exit(1, "NoStowTool")
            /\ source_path' = Unset
            /\ app_name' = None
       ELSE /\ source_path' = resolve(fs, cwd, src)
            /\ app_name' = app
            /\ IF _load_config(global_config, local_config).state = "nonobject"
               THEN Exit(1, "AttributeError")
               ELSE /\ pc' = "get_dotfiles_dir"
                    /\ outcome' = "running"
                    /\ exit_code' = 0
    /\ UNCHANGED <<fs, Env>>

\* _get_dotfiles_dir up to the interactive loop
GetDotfilesDir ==
    /\ pc = "get_dotfiles_dir"
    /\ LET given == final_dotfiles_dir(argv.dotfiles_dir,
                        _load_config(global_config, local_config))
       IN IF Truthy(given)
          THEN /\ path' = resolve(fs, cwd, given)
               /\ io' = io
               /\ IF ~exists(fs, path')
                  THEN /\ Exit(1, "ConfigurationError")
                       /\ UNCHANGED dotfiles_dir
                  ELSE /\ dotfiles_dir' = path'
                       /\ pc' = "validate"
                       /\ UNCHANGED <<outcome, exit_code>>
          ELSE LET verdict == _is_dotfiles_directory(fs, cwd, listable) IN
               /\ io' = io \cup {"classified"}
               /\ IF verdict = "PermissionError"
                  THEN /\ Exit(1, "PermissionError")
                       /\ UNCHANGED <<dotfiles_dir, path>>
                  ELSE IF verdict = "True"
                  THEN /\ dotfiles_dir' = cwd
                       /\ pc' = "validate"
                       /\ UNCHANGED <<path, outcome, exit_code>>
                  ELSE /\ path' = home \o <<"dotfiles">>
                       /\ pc' = "check_exists"
                       /\ UNCHANGED <<dotfiles_dir, outcome, exit_code>>
    /\ UNCHANGED <<fs, Env, argv, source_path, app_name, target_path, answer,
                   infer, fs0, runs, prev>>

\* the head of the loop: `if not path.exists()` ... `else: return path`
CheckExists ==
    /\ pc = "check_exists"
    /\ IF exists(fs, path)
       THEN /\ dotfiles_dir' = path
            /\ pc' = "validate"
            /\ io' = io
       ELSE /\ pc' = "ask_create"
            /\ io' = io \cup {"ask_create"}
            /\ UNCHANGED dotfiles_dir
    /\ UNCHANGED <<fs, Env, argv, source_path, app_name, target_path, path,
                   answer, infer, outcome, exit_code, fs0, runs, prev>>

\* the answer to "Create it? [y/N]"
AnswerCreate(line) ==
    /\ pc = "ask_create"
    /\ answer' = line
    /\ IF is_yes(line)
       THEN /\ fs' = mkdir(fs, path)
            /\ dotfiles_dir' = path
            /\ pc' = "validate"
            /\ io' = io \cup {"created"}
       ELSE /\ pc' = "ask_alternate"
            /\ io' = io \cup {"ask_alternate"}
            /\ UNCHANGED <<fs, dotfiles_dir>>
    /\ UNCHANGED <<Env, argv, source_path, app_name, target_path, path, infer,
                   outcome, exit_code, fs0, runs, prev>>

\* the answer to "Please provide an alternative dotfiles directory path"
AnswerAlternate(line) ==
    /\ pc = "ask_alternate"
    /\ answer' = line
    /\ LET new_path_str == strip(line) IN
       IF new_path_str = ""
       THEN UNCHANGED path
       ELSE path' = resolve(fs, cwd, new_path_str)
    /\ pc' = "check_exists"
    /\ UNCHANGED <<fs, Env, argv, source_path, app_name, dotfiles_dir,
                   target_path, infer, outcome, exit_code, fs0, io, runs,
                   prev>>

\* KeyboardInterrupt or EOFError at either prompt of the loop
CancelLocator ==
    /\ pc \in {"ask_create", "ask_alternate"}
    /\ Exit(0, "Cancelled")
    /\ UNCHANGED <<fs, Env, argv, source_path, app_name, dotfiles_dir,
                   target_path, path, answer, infer, fs0, io, runs, prev>>

\* _validate_source_and_target
Validate ==
    /\ pc = "validate"
    /\ IF ~exists(fs, source_path)
       THEN /\ Exit(1, "NotFound")
            /\ io' = io \cup {"c_exists"}
            /\ UNCHANGED <<app_name, target_path, infer>>
       ELSE IF is_symlink(fs, source_path)
       THEN /\ Exit(0, "AlreadySymlink")
            /\ io' = io \cup {"c_exists", "c_symlink"}
            /\ UNCHANGED <<app_name, target_path, infer>>
       ELSE IF is_relative_to(source_path, dotfiles_dir)
       THEN /\ Exit(0, "AlreadyInside")
            /\ io' = io \cup {"c_exists", "c_symlink", "c_inside"}
            /\ UNCHANGED <<app_name, target_path, infer>>
       ELSE
       LET checked == {"c_exists", "c_symlink", "c_inside"}
           inferred == IF Truthy(app_name) THEN NotCalled
                       ELSE _infer_app_name(source_path)
           name_ok == Truthy(app_name) \/ inferred.ok
           the_name == IF Truthy(app_name) THEN app_name ELSE inferred.val
           target == _get_target_path(dotfiles_dir, the_name, source_path)
       IN
       /\ infer' = inferred
       /\ IF ~name_ok
          THEN /\ Exit(1, IF inferred.val = "ValueError"
                          THEN "PreconditionError" ELSE inferred.val)
               /\ io' = io \cup checked \cup {"infer"}
               /\ UNCHANGED <<app_name, target_path>>
          ELSE
          /\ app_name' = the_name
          /\ IF ~target.ok
             THEN /\ Exit(1, IF target.err = "ValueError"
                             THEN "PreconditionError" ELSE target.err)
                  /\ io' = io \cup checked \cup {"target"}
                            \cup (IF inferred.called THEN {"infer"} ELSE {})
                  /\ UNCHANGED target_path
             ELSE
             /\ target_path' = target.val
             /\ IF conflicts(fs, target.val)
                THEN /\ Exit(1, "Conflict")
                     /\ io' = io \cup checked \cup {"target", "c_target"}
                               \cup (IF inferred.called THEN {"infer"} ELSE {})
                ELSE /\ pc' = "ask_proceed"
                     /\ io' = io \cup checked
                               \cup {"target", "c_target", "ask_proceed"}
                               \cup (IF inferred.called THEN {"infer"} ELSE {})
                     /\ UNCHANGED <<outcome, exit_code>>
    /\ UNCHANGED <<fs, Env, argv, source_path, dotfiles_dir, path, answer,
                   fs0, runs, prev>>

\* the answer to "Proceed with movement? [y/N]", then _perform_movement and
\* the choice of the stow step; moved = FALSE is shutil.move raising
AnswerProceed(line, moved) ==
    /\ pc = "ask_proceed"
    /\ answer' = line
    /\ IF ~is_yes(line)
       THEN /\ Exit(0, "Declined")
            /\ UNCHANGED <<fs, io>>
       ELSE IF ~moved
       THEN /\ fs' = mkdir(fs, parent(target_path))
            /\ Exit(1, "MoveFailed")
            /\ UNCHANGED io
       ELSE /\ fs' = shutil_move(mkdir(fs, parent(target_path)),
                                 source_path, target_path)
            /\ IF argv.no_stow
               THEN /\ Exit(0, "Moved")
                    /\ io' = io \cup {"moved"}
               ELSE IF argv.auto_stow
               THEN /\ pc' = "run_stow"
                    /\ io' = io \cup {"moved"}
                    /\ UNCHANGED <<outcome, exit_code>>
               ELSE /\ pc' = "ask_stow"
                    /\ io' = io \cup {"moved", "ask_stow"}
                    /\ UNCHANGED <<outcome, exit_code>>
    /\ UNCHANGED <<Env, argv, source_path, app_name, dotfiles_dir,
                   target_path, path, infer, fs0, runs, prev>>

\* KeyboardInterrupt or EOFError at the movement prompt
CancelProceed ==
    /\ pc = "ask_proceed"
    /\ Exit(0, "Cancelled")
    /\ UNCHANGED <<fs, Env, argv, source_path, app_name, dotfiles_dir,
                   target_path, path, answer, infer, fs0, io, runs, prev>>

\* the answer to "Run `stow` now to create symlinks? [y/N]"
AnswerStow(line) ==
    /\ pc = "ask_stow"
    /\ answer' = line
    /\ io' = io
    /\ IF is_yes(line)
       THEN /\ pc' = "run_stow"
            /\ UNCHANGED <<outcome, exit_code>>
       ELSE Exit(0, "Moved")
    /\ UNCHANGED <<fs, Env, argv, source_path, app_name, dotfiles_dir,
                   target_path, path, infer, fs0, runs, prev>>

\* KeyboardInterrupt or EOFError at the stow prompt: move() returns
CancelStow ==
    /\ pc = "ask_stow"
    /\ Exit(0, "Moved")
    /\ UNCHANGED <<fs, Env, argv, source_path, app_name, dotfiles_dir,
                   target_path, path, answer, infer, fs0, io, runs, prev>>

\* `stow -d root -t home app`: every entry of the package whose place under
\* home is free, below directories that exist there, becomes a link to it
StowPlace(root, app, q) == home \o relative_to(q, joinpath(root, app))
StowLinks(f, root, app) ==
    {q \in DOMAIN f :
        /\ IsPrefix(joinpath(root, app), q) /\ q # joinpath(root, app)
        /\ f[q].kind # "none"
        /\ node(f, StowPlace(root, app, q)).kind = "none"
        /\ node(f, parent(StowPlace(root, app, q))).kind = "dir"}
stow(f, root, app) ==
    LET links == StowLinks(f, root, app)
        places == {StowPlace(root, app, q) : q \in links}
    IN [l \in DOMAIN f \cup places |->
            IF l \in places
            THEN Link(CHOOSE q \in links : StowPlace(root, app, q) = l)
            ELSE f[l]]

\* _run_stow; done = FALSE is stow exiting with a non-zero status
RunStow(done) ==
    /\ pc = "run_stow"
    /\ IF done
       THEN /\ fs' = stow(fs, dotfiles_dir, app_name)
            /\ io' = io \cup {"stow"}
                      \cup (IF is_symlink(fs', source_path)
                            THEN {"linked"} ELSE {})
            /\ Exit(0, "Moved")
       ELSE /\ Exit(1, "StowFailed")
            /\ io' = io \cup {"stow"}
            /\ UNCHANGED fs
    /\ UNCHANGED <<Env, argv, source_path, app_name, dotfiles_dir,
                   target_path, path, answer, infer, fs0, runs, prev>>

\* ------------------------------------------ the app-name resolver alone
\* line 254: self.app_name = self.app_name or self._infer_app_name()
ResolveAppName ==
    /\ pc = "resolve"
    /\ infer' = IF Truthy(app_name) THEN NotCalled
                ELSE _infer_app_name(source_path)
    /\ IF Truthy(app_name)
       THEN /\ pc' = "map"
            /\ UNCHANGED <<app_name, outcome>>
       ELSE IF infer'.ok
       THEN /\ pc' = "map"
            /\ app_name' = infer'.val
            /\ UNCHANGED outcome
       ELSE /\ pc' = "raised"
            /\ outcome' = infer'.val
            /\ UNCHANGED app_name
    /\ UNCHANGED <<fs, Env, argv, source_path, dotfiles_dir, target_path,
                   path, answer, exit_code, fs0, io, runs, prev>>

\* line 255: self.target_path = self._get_target_path(self.app_name)
MapTarget ==
    /\ pc = "map"
    /\ LET target == _get_target_path(dotfiles_dir, app_name, source_path) IN
       IF target.ok
       THEN /\ target_path' = target.val
            /\ pc' = "mapped"
            /\ UNCHANGED outcome
       ELSE /\ pc' = "raised"
            /\ outcome' = target.err
            /\ UNCHANGED target_path
    /\ UNCHANGED <<fs, Env, argv, source_path, app_name, dotfiles_dir, path,
                   answer, infer, exit_code, fs0, io, runs, prev>>

\* ---------------------------------------------------------- the inputs
FsOf(entries) ==
    [p \in {e[1] : e \in entries} |-> (CHOOSE e \in entries : e[1] = p)[2]]

Work == <<"h", "work">>
Repo == <<"h", "dotfiles">>
BaseEntries == {<<home, Dir>>, <<Work, Dir>>, <<(<<"etc">>), Dir>>,
                <<(<<"etc", "x">>), File>>}

VimrcEntries(v) ==
    IF v = "file" THEN {<<(<<"h", ".vimrc">>), File>>}
    ELSE IF v = "to_real"
    THEN {<<(<<"h", ".vimrc">>), Link(<<"h", "real">>)>>}
    ELSE IF v = "to_repo"
    THEN {<<(<<"h", ".vimrc">>), Link(Repo \o <<"vim", ".vimrc">>)>>}
    ELSE {}
RealEntries(r) == IF r THEN {<<(<<"h", "real">>), File>>} ELSE {}
RepoEntries(r) ==
    IF r = "none" THEN {}
    ELSE {<<Repo, Dir>>} \cup
         (IF r = "vimdir" THEN {<<Repo \o <<"vim">>, Dir>>}
          ELSE IF r = "vimrc"
          THEN {<<Repo \o <<"vim">>, Dir>>,
                <<Repo \o <<"vim", ".vimrc">>, File>>}
          ELSE IF r = "real"
          THEN {<<Repo \o <<"real">>, Dir>>,
                <<Repo \o <<"real", "real">>, File>>}
          ELSE {})

IdleRun ==
    /\ pc = "idle"
    /\ argv = NoArgs
    /\ source_path = Unset
    /\ app_name = None
    /\ dotfiles_dir = Unset
    /\ target_path = Unset
    /\ path = Unset
    /\ answer = None
    /\ infer = NotCalled
    /\ outcome = "none"
    /\ exit_code = 0
    /\ fs0 = fs
    /\ io = {}
    /\ runs = 0
    /\ prev = NoPrev

\* the state before the first run: what is on disk varies, the process is
\* started from a plain directory without configuration files
Init ==
    /\ \E v \in {"none", "file", "to_real", "to_repo"}, r \in BOOLEAN,
          d \in {"none", "empty", "vimdir", "vimrc", "real"} :
          fs = FsOf(BaseEntries \cup VimrcEntries(v) \cup RealEntries(r)
                    \cup RepoEntries(d))
    /\ cwd = Work
    /\ global_config = NoFile
    /\ local_config = NoFile
    /\ listable = TRUE
    /\ stow_installed \in BOOLEAN
    /\ IdleRun

SourceArgs == {"~/.vimrc", "/h/real", "/h/dotfiles/vim/.vimrc",
               "/h/dotfiles/real/real", "/etc/x"}
AppArgs == {None, "app"}
DirArgs == {None, "~/dotfiles"}
Lines == {"y", "YES", "n", "", " y"}
AlternateLines == {"", " ", "~/repo", " /h/dotfiles "}

Steps ==
    \/ GetDotfilesDir
    \/ CheckExists
    \/ \E line \in Lines : AnswerCreate(line)
    \/ \E line \in AlternateLines : AnswerAlternate(line)
    \/ CancelLocator
    \/ Validate
    \/ \E line \in Lines, moved \in BOOLEAN : AnswerProceed(line, moved)
    \/ CancelProceed
    \/ \E line \in Lines : AnswerStow(line)
    \/ CancelStow
    \/ \E done \in BOOLEAN : RunStow(done)

Run ==
    \E src \in SourceArgs, app \in AppArgs, dir \in DirArgs,
       auto \in BOOLEAN, no \in BOOLEAN : Main(src, app, dir, auto, no)

Next == Run \/ Steps

Spec == Init /\ [][Next]_vars

\* ------------------------------------ runs that exercise the locator
Configs == <<"h", "Configs">>
WorkEntries(w) ==
    IF w = "marker" THEN {<<Work \o <<".stow-local-ignore">>, File>>}
    ELSE IF w = "oneapp"
    THEN {<<Work \o <<"vim">>, Dir>>, <<Work \o <<"notes">>, Dir>>}
    ELSE IF w = "twoapps"
    THEN {<<Work \o <<"vim">>, Dir>>, <<Work \o <<"git">>, Dir>>}
    ELSE IF w = "appfile"
    THEN {<<Work \o <<"vim">>, Dir>>, <<Work \o <<"git">>, File>>}
    ELSE {}

InitLocator ==
    /\ \E w \in {"plain", "marker", "oneapp", "twoapps", "appfile", "named"},
          d \in BOOLEAN, r \in BOOLEAN :
          /\ cwd = IF w = "named" THEN Configs ELSE Work
          /\ fs = FsOf({<<home, Dir>>, <<Work, Dir>>, <<Configs, Dir>>,
                        <<(<<"h", ".vimrc">>), File>>}
                       \cup WorkEntries(w)
                       \cup (IF d THEN {<<Repo, Dir>>} ELSE {})
                       \cup (IF r THEN {<<(<<"h", "repo">>), Dir>>} ELSE {}))
    /\ global_config \in {NoFile, BadJson, JsonList, JsonObject(None),
                          JsonObject("~/repo"), JsonObject("/h/missing")}
    /\ local_config \in {NoFile, BadJson, JsonObject("~/dotfiles")}
    /\ listable \in BOOLEAN
    /\ stow_installed = TRUE
    /\ IdleRun

LocatorDirArgs == {None, "", "~/dotfiles", "/h/repo", "/h/missing"}

RunLocator ==
    \E dir \in LocatorDirArgs, no \in BOOLEAN :
        Main("~/.vimrc", None, dir, FALSE, no)

NextLocator == RunLocator \/ Steps

SpecLocator == InitLocator /\ [][NextLocator]_vars

\* ---------------------------- the resolver and the mapper on their inputs
ResolverSources ==
    {"~/.bashrc", "~/.bashrc_backup", "~/.bash_profile", "~/.zshrc",
     "~/.ssh", "~/.ssh/id_rsa", "~/.sshfoo", "~/.vimrc", "~/.profile",
     "~/.config/git", "~/.config/git/config", "~/.config/gitui",
     "~/.config/gitui/key.ron", "~/.config/nvim/init.vim",
     "~/.config/fish/config.fish", "~/config.fish",
     "~/.config", "~/.configfoo", "~/.config/foo", "~/.config/foo/bar.conf",
     "~/.myrc", "~/.myapp/conf/settings.ini", "~/notes", "~/...",
     "~", "/etc/x"}
ResolverApps == {None, "", "app"}
ResolverRoots == {Repo, <<"srv", "repo">>}

InitResolver ==
    /\ fs = FsOf({<<home, Dir>>})
    /\ cwd = home
    /\ global_config = NoFile
    /\ local_config = NoFile
    /\ listable = TRUE
    /\ stow_installed = TRUE
    /\ pc = "resolve"
    /\ argv = NoArgs
    /\ \E s \in ResolverSources : source_path = resolve(fs, cwd, s)
    /\ app_name \in ResolverApps
    /\ dotfiles_dir \in ResolverRoots
    /\ target_path = Unset
    /\ path = Unset
    /\ answer = None
    /\ infer = NotCalled
    /\ outcome = "none"
    /\ exit_code = 0
    /\ fs0 = fs
    /\ io = {}
    /\ runs = 0
    /\ prev = NoPrev

NextResolver == ResolveAppName \/ MapTarget

SpecResolver == InitResolver /\ [][NextResolver]_vars

\* ================================================================ claims
\* the source path as the caller gave it, made absolute, links not followed
SourceGiven == absolute(cwd, argv.source_path)
RunEnded == pc = "idle" /\ runs > 0
\* the run got as far as _validate_source_and_target
Validated == "c_exists" \in io
NoOps == {"AlreadySymlink", "AlreadyInside"}
AfterChecks == {"infer", "target", "c_target", "ask_proceed", "moved", "stow"}

\* C1: a run whose caller-supplied source is a symbolic link ends as a no-op
\* success (exit 0, nothing moved, stow not called) and leaves the
\* filesystem exactly as it was.
C1_SymlinkSourceIsNoOp ==
    (RunEnded /\ Validated /\ is_symlink(fs0, SourceGiven)) =>
        /\ exit_code = 0
        /\ outcome \in NoOps
        /\ fs = fs0
        /\ io \cap {"moved", "stow", "created"} = {}

\* C2: an existing, non-symlink source outside the repository root whose
\* computed target exists ends with Conflict (exit 1) before the movement
\* prompt, and nothing is changed: no move, no directory, no stow.
C2_ConflictChangesNothing ==
    LET src == SourceGiven
        app == IF Truthy(argv.app_name) THEN argv.app_name
               ELSE _infer_app_name(src).val
        target == _get_target_path(dotfiles_dir, app, src)
    IN (/\ RunEnded /\ Validated
        /\ exists(fs0, src) /\ ~is_symlink(fs0, src)
        /\ ~is_relative_to(src, dotfiles_dir)
        /\ Truthy(argv.app_name) \/ _infer_app_name(src).ok
        /\ target.ok /\ exists(fs0, target.val))
       => /\ outcome = "Conflict"
          /\ exit_code = 1
          /\ fs = fs0
          /\ exists(fs, src)
          /\ io \cap {"ask_proceed", "moved", "stow", "created"} = {}

C2_Witness ==
    /\ RunEnded /\ outcome = "Conflict"
    /\ exists(fs0, SourceGiven) /\ ~is_symlink(fs0, SourceGiven)
    /\ exists(fs0, target_path)

\* a pattern is a path-prefix of rel: equal, or followed by a separator
PathPrefix(pattern, rel) == rel = pattern \/ startswith(rel, pattern \o "/")
PathHits(rel) ==
    {i \in 1..Len(APP_NAME_MAPPINGS) : PathPrefix(APP_NAME_MAPPINGS[i][1], rel)}
First(hits) == CHOOSE i \in hits : \A j \in hits : i <= j

\* C3: the resolver returns the app name of the first table entry whose
\* pattern is a path-prefix of the home-relative path, and an entry whose
\* pattern is only a prefix of the characters does not match.
C3_FirstPathPrefixEntry ==
    (infer.called /\ is_relative_to(source_path, home)) =>
        LET rel == join(relative_to(source_path, home)) IN
        IF PathHits(rel) # {}
        THEN /\ infer.ok /\ infer.via = "table"
             /\ infer.val = APP_NAME_MAPPINGS[First(PathHits(rel))][2]
        ELSE infer.via # "table"

\* C4: with no table entry matching (and none taken by the scan), the app
\* name is the segment after .config when the relative path begins with the
\* .config segment, and else the first segment without its leading dots; it
\* is never empty.
C4_FallbackAppName ==
    (/\ infer.called /\ is_relative_to(source_path, home)
     /\ Len(relative_to(source_path, home)) > 0
     /\ PathHits(join(relative_to(source_path, home))) = {}
     /\ infer.via # "table") =>
        LET rel == relative_to(source_path, home) IN
        /\ infer.ok
        /\ infer.val # ""
        /\ (rel[1] = ".config" /\ Len(rel) > 1) => infer.val = rel[2]
        /\ rel[1] # ".config" => infer.val = lstrip(rel[1], {"."})

\* C5: the mapper returns root / app / (source relative to home); for a
\* source home/.config/<app>/rest with no entry matching and no explicit
\* name the app is <app> and the target root/<app>/.config/<app>/rest; the
\* filesystem is not touched.
C5_TargetKeepsRelativePath ==
    (/\ pc = "mapped" /\ is_relative_to(source_path, home)
     /\ Len(relative_to(source_path, home)) > 0) =>
        LET rel == relative_to(source_path, home) IN
        /\ target_path = joinpath(dotfiles_dir, app_name) \o rel
        /\ fs = fs0
        /\ (/\ infer.called /\ Len(rel) > 1 /\ rel[1] = ".config"
            /\ PathHits(join(rel)) = {}) =>
               /\ app_name = rel[2]
               /\ target_path = dotfiles_dir \o <<rel[2]>> \o rel

\* C6 as claimed: after a run that moved S to T under R, a following run on
\* S ends with NotFound and one on T with the already-inside no-op success,
\* whichever way the stow step went; neither changes anything.
C6_RoundTripAsClaimed ==
    (RunEnded /\ Validated /\ prev.moved /\ dotfiles_dir = prev.root) =>
        /\ SourceGiven = prev.from =>
              outcome = "NotFound" /\ exit_code = 1 /\ fs = fs0
        /\ SourceGiven = prev.to =>
              outcome = "AlreadyInside" /\ exit_code = 0 /\ fs = fs0

\* C6 amended: the following run on S ends with NotFound when the stow step
\* left no link at S, and with a no-op success (exit 0) when stow linked S
\* to T; the run on T ends with the already-inside no-op success; neither
\* changes anything.
C6_RoundTrip ==
    (RunEnded /\ Validated /\ prev.moved /\ dotfiles_dir = prev.root) =>
        /\ (SourceGiven = prev.from /\ ~prev.linked) =>
              outcome = "NotFound" /\ exit_code = 1 /\ fs = fs0
        /\ (SourceGiven = prev.from /\ prev.linked) =>
              outcome \in NoOps /\ exit_code = 0 /\ fs = fs0
        /\ SourceGiven = prev.to =>
              outcome = "AlreadyInside" /\ exit_code = 0 /\ fs = fs0

C6_Witness ==
    /\ RunEnded /\ Validated /\ prev.moved /\ prev.linked
    /\ dotfiles_dir = prev.root
    /\ SourceGiven = prev.from
    /\ outcome \in NoOps

\* C7: the run's outcome is that of the first failing condition among
\* exists, not a symlink, not inside the root, target free; nothing later
\* (inference, target, prompt) happens after it, and a move happens only
\* when all four hold.
C7_FirstFailingCondition ==
    LET src == SourceGiven IN
    /\ (RunEnded /\ Validated) =>
          IF ~exists(fs0, src)
          THEN /\ outcome = "NotFound"
               /\ io \cap ({"c_symlink", "c_inside"} \cup AfterChecks) = {}
          ELSE IF is_symlink(fs0, src)
          THEN outcome \in NoOps /\ exit_code = 0 /\ io \cap AfterChecks = {}
          ELSE IF is_relative_to(src, dotfiles_dir)
          THEN /\ outcome = "AlreadyInside" /\ exit_code = 0
               /\ io \cap AfterChecks = {}
          ELSE IF "c_target" \in io /\ exists(fs0, target_path)
          THEN outcome = "Conflict" /\ io \cap {"ask_proceed", "moved"} = {}
          ELSE TRUE
    /\ "moved" \in io =>
          /\ exists(fs0, src) /\ ~is_symlink(fs0, src)
          /\ ~is_relative_to(src, dotfiles_dir)
          /\ ~exists(fs0, target_path)

\* the persisted dotfiles_dir value, None when there is none
Persisted == _load_config(global_config, local_config).dotfiles_dir
\* _get_dotfiles_dir has started to decide
Resolving ==
    /\ runs > 0 /\ pc # "get_dotfiles_dir"
    /\ outcome \notin {"NoStowTool", "AttributeError"}

YesLines == {"y", "YES"}
BlankLines == {"", " "}
NamedBy(line) == IF line = "~/repo" THEN <<"h", "repo">> ELSE Repo
CancelledHere == pc' = "idle" /\ outcome' = "Cancelled" /\ exit_code' = 0
                 /\ fs' = fs

LoopStep ==
    /\ pc = "get_dotfiles_dir" => fs' = fs
    /\ (pc = "get_dotfiles_dir" /\ pc' = "check_exists") =>
          path' = home \o <<"dotfiles">>
    /\ pc = "check_exists" =>
          IF exists(fs, path)
          THEN pc' = "validate" /\ dotfiles_dir' = path /\ fs' = fs
          ELSE pc' = "ask_create" /\ path' = path /\ fs' = fs
    /\ pc = "ask_create" =>
          \/ CancelledHere
          \/ /\ answer' \in YesLines
             /\ pc' = "validate" /\ dotfiles_dir' = path
             /\ exists(fs', path)
             /\ \A q \in DOMAIN fs : q \in DOMAIN fs' /\ fs'[q] = fs[q]
             /\ \A q \in DOMAIN fs' \ DOMAIN fs : IsPrefix(q, path)
          \/ /\ answer' \in Lines \ YesLines
             /\ pc' = "ask_alternate" /\ path' = path /\ fs' = fs
    /\ pc = "ask_alternate" =>
          \/ CancelledHere
          \/ /\ answer' \in BlankLines
             /\ pc' = "check_exists" /\ path' = path /\ fs' = fs
          \/ /\ answer' \in AlternateLines \ BlankLines
             /\ pc' = "check_exists" /\ path' = NamedBy(answer') /\ fs' = fs

\* C9: the interactive fallback is the stated state machine from
\* home/dotfiles; it returns only an existing candidate, creates only after
\* a yes to that candidate, and a cancellation exits 0 creating nothing.
C9_InteractiveFallback ==
    /\ [][LoopStep]_vars
    /\ [](pc = "validate" => exists(fs, dotfiles_dir))
    /\ [](("created" \in io /\ pc = "validate") =>
             answer \in YesLines /\ dotfiles_dir = path)
    /\ []((RunEnded /\ outcome = "Cancelled" /\ ~Validated) =>
             exit_code = 0 /\ fs = fs0)

C9_Witness ==
    /\ pc = "validate" /\ "created" \in io /\ "ask_alternate" \in io
    /\ dotfiles_dir = <<"h", "repo">>
    /\ ~exists(fs0, dotfiles_dir)

\* C10: a permission error while listing the candidate directory is
\* swallowed by the classifier; the run never ends with an error caused by
\* it and goes on to the interactive fallback.
C10_PermissionErrorSwallowed ==
    (runs > 0 /\ ~listable /\ "classified" \in io) =>
        /\ outcome # "PermissionError"
        /\ pc = "idle" => (Validated \/ outcome = "Cancelled")

====
